---- MODULE Spec2Model ----
(***************************************************************************)
(* Process orchestrator of homelab-monitor (src/dashboard/run.py): the     *)
(* supervisor coroutine main(), terminate_process(), wait_for_http(), the  *)
(* asyncio tasks it creates and the two child processes it supervises.     *)
(*                                                                         *)
(* The probe's clock counts units of 0.5 s (its polling interval), the     *)
(* grace clock of terminate_process counts units of 5 s (its default       *)
(* grace period); the two clocks are never compared.                       *)
(* Event-loop callbacks (signal handler, child-exit notification, task     *)
(* steps) run only while main() is suspended at an await; the child        *)
(* processes and the OS run at any time.                                   *)
(***************************************************************************)
EXTENDS Integers, Sequences, FiniteSets, TLC

Roles == {"api", "ui"}
Streams == {"out", "err"}

\* Optional values: None is <<>>, a present value v is <<v>>.
None == <<>>
Some(v) == <<v>>

\* ------------------------------------------------------------- constants
\* wait_for_http(timeout=20.0), in units of 0.5 s
Timeout == 40
\* wait_for_http(interval=0.5), in units of 0.5 s
Interval == 1
\* terminate_process(grace=5.0), in units of 5 s
Grace == 1
\* returncode of a child ended by SIGTERM / SIGKILL (asyncio: -signum)
SIGTERM == -15
SIGKILL == -9
\* f"http://{args.api_host}:{args.api_port}" with the default host and port
api_url == "http://127.0.0.1:8000"
\* the stream reader's line limit (2**16 bytes), scaled to the lines of Lines
StreamLimit == 2

\* --------------------------------------------------------------- bounds
\* longest time one blocking urlopen call takes (units of 0.5 s)
MaxPollTicks == 1
\* exit codes a child may end with on its own
MaxExitCode == 0
\* largest grace period (units of 5 s) tried when terminate_process is
\* exercised on its own
MaxGrace == 2
\* largest timeout and interval (time units) tried when wait_for_http is
\* exercised on its own
MaxTimeout == 8
MaxInterval == 2
\* lines a child writes to one stream
MaxLines == 2
\* lines a pipe and its reader's buffer hold unread
PipeCap == 1

OwnExitCodes == 0..MaxExitCode

Min(a, b) == IF a < b THEN a ELSE b

VARIABLES
    no_api, no_ui,          \* args.no_api, args.no_ui
    db_python, tui_python,  \* first_existing(...) found an interpreter
    pc,                     \* position of main()
    exc,                    \* an exception is propagating out of the try body
    sigPending,             \* SIGINT/SIGTERM delivered, handler not yet run
    stop_event,             \* asyncio.Event set by handle_sig
    os,                     \* OS-level state of each child
    code,                   \* OS-level exit status of each child
    returncode,             \* proc.returncode as seen by the event loop
    proc,                   \* api_proc / tui_proc is not None
    termSent, killSent,     \* proc.terminate() / proc.kill() was called
    spawnCount,             \* number of create_subprocess_exec per role
    piper,                  \* the stdout/stderr _pipe_stream tasks
    api_wait_task, tui_wait_task, stop_task,
    elapsed,                \* wait_for_http: loop.time() - start
    tpc, tproc,             \* terminate_process: position, argument proc
    grace, graceElapsed,    \* terminate_process: grace, time waited so far
    ret,                    \* per role, how each terminate_process call ended
    raisedAt,               \* where a ProcessLookupError escaped, if any
    finDone,                \* the finally block is past the role's step
    probeResult,            \* value wait_for_http returned, until it is used
    tui_env,                \* main(): HOMELAB_API_URL in tui_env, once built
    timeout,                \* wait_for_http: its timeout argument
    interval,               \* wait_for_http: its interval argument
    upAt,                   \* when the probed endpoint starts to answer 2xx
    emitted,                \* per stream, the lines the child has written
    pipe,                   \* per stream, the lines written and not yet read
    sink,                   \* per process, the lines appended to its log file
    console                 \* the lines printed by the pipers

vars == <<no_api, no_ui, db_python, tui_python, pc, exc, sigPending,
          stop_event, os, code, returncode, proc, termSent, killSent,
          spawnCount, piper, api_wait_task, tui_wait_task, stop_task,
          elapsed, tpc, tproc, grace, graceElapsed, ret, raisedAt, finDone,
          probeResult, tui_env, timeout, interval, upAt,
          emitted, pipe, sink, console>>

cfgVars == <<no_api, no_ui, db_python, tui_python>>
childVars == <<os, code>>
taskVars == <<api_wait_task, tui_wait_task, stop_task>>
termVars == <<tpc, tproc, grace, graceElapsed, ret, raisedAt>>
probeArgs == <<timeout, interval, upAt>>
startVars == <<probeResult, tui_env, probeArgs>>
ioVars == <<emitted, pipe, sink, console>>

\* main() is suspended at an await, so the event loop runs callbacks.
Suspended ==
    \/ pc \in {"ApiSpawnAwait", "ProbeSleep", "UiSpawnAwait", "Running"}
    \/ tpc \in {"grace", "kill"}

Terminated == pc \in {"Exit1", "Stopped", "Crashed", "TDone"}

NoPipers == [s \in Streams |-> "none"]

NoLines == [s \in Streams |-> <<>>]

\* The virtual-environment directories main() looks into.
Venvs == {"db-venv", "venv", "textual-venv"}

\* first_existing(paths): the interpreter of the first directory of paths
\* that exists and holds one; found is the set of such directories.
RECURSIVE first_existing(_, _)
first_existing(paths, found) ==
    IF paths = <<>> THEN None
    ELSE IF Head(paths) \in found THEN Some(Head(paths))
    ELSE first_existing(Tail(paths), found)

Init ==
    /\ no_api \in BOOLEAN /\ no_ui \in BOOLEAN
    /\ \E found \in SUBSET Venvs :
        /\ db_python = (first_existing(<<"db-venv", "venv">>, found) # None)
        /\ tui_python = (first_existing(<<"textual-venv">>, found) # None)
    /\ pc = "Idle"
    /\ exc = FALSE
    /\ sigPending = FALSE
    /\ stop_event = FALSE
    /\ os = [r \in Roles |-> "none"]
    /\ code = [r \in Roles |-> 0]
    /\ returncode = [r \in Roles |-> None]
    /\ proc = [r \in Roles |-> FALSE]
    /\ termSent = [r \in Roles |-> FALSE]
    /\ killSent = [r \in Roles |-> FALSE]
    /\ spawnCount = [r \in Roles |-> 0]
    /\ piper = [r \in Roles |-> NoPipers]
    /\ api_wait_task = "none" /\ tui_wait_task = "none" /\ stop_task = "none"
    /\ elapsed = 0
    /\ tpc = "idle" /\ tproc = "api"
    /\ grace = Grace /\ graceElapsed = 0
    /\ ret = [r \in Roles |-> <<>>]
    /\ raisedAt = "none"
    /\ finDone = [r \in Roles |-> FALSE]
    /\ probeResult = None
    /\ tui_env = None
    /\ timeout = Timeout /\ interval = Interval
    /\ upAt = None
    /\ emitted = [r \in Roles |-> NoLines]
    /\ pipe = [r \in Roles |-> NoLines]
    /\ sink = [r \in Roles |-> <<>>]
    /\ console = <<>>

\* ----------------------------------------------------- child processes
\* The children are followed for as long as the supervisor itself runs.
\* A running child ends on its own (or by handling SIGTERM) with an exit code.
ChildExit(r) ==
    /\ ~Terminated
    /\ os[r] = "running"
    /\ \E c \in OwnExitCodes : code' = [code EXCEPT ![r] = c]
    /\ os' = [os EXCEPT ![r] = "exited"]
    /\ UNCHANGED <<cfgVars, startVars, ioVars,
                   pc, exc, sigPending, stop_event, returncode, proc,
                   termSent, killSent, spawnCount, piper, taskVars, elapsed,
                   termVars, finDone>>

\* A running child that received SIGTERM dies of it (default disposition).
TermDeath(r) ==
    /\ ~Terminated
    /\ os[r] = "running"
    /\ termSent[r]
    /\ os' = [os EXCEPT ![r] = "exited"]
    /\ code' = [code EXCEPT ![r] = SIGTERM]
    /\ UNCHANGED <<cfgVars, startVars, ioVars,
                   pc, exc, sigPending, stop_event, returncode, proc,
                   termSent, killSent, spawnCount, piper, taskVars, elapsed,
                   termVars, finDone>>

\* A running child that received SIGKILL dies of it.
KillDeath(r) ==
    /\ ~Terminated
    /\ os[r] = "running"
    /\ killSent[r]
    /\ os' = [os EXCEPT ![r] = "exited"]
    /\ code' = [code EXCEPT ![r] = SIGKILL]
    /\ UNCHANGED <<cfgVars, startVars, ioVars,
                   pc, exc, sigPending, stop_event, returncode, proc,
                   termSent, killSent, spawnCount, piper, taskVars, elapsed,
                   termVars, finDone>>

\* SIGINT or SIGTERM is delivered to the supervisor (handlers are installed).
Signal ==
    /\ pc # "Idle"
    /\ ~Terminated
    /\ ~sigPending
    /\ sigPending' = TRUE
    /\ UNCHANGED <<cfgVars, startVars, ioVars,
                   pc, exc, stop_event, childVars, returncode, proc,
                   termSent, killSent, spawnCount, piper, taskVars, elapsed,
                   termVars, finDone>>

\* ------------------------------------------------- event-loop callbacks
\* Variant: the handler of a signal flips the event.
handle_sig_toggle ==
    /\ Suspended
    /\ sigPending
    /\ sigPending' = FALSE
    /\ stop_event' = ~stop_event
    /\ UNCHANGED <<cfgVars, startVars, ioVars,
                   pc, exc, childVars, returncode, proc, termSent,
                   killSent, spawnCount, piper, taskVars, elapsed, termVars,
                   finDone>>

\* handle_sig: the loop runs the signal handler, which sets the event.
handle_sig ==
    /\ Suspended
    /\ sigPending
    /\ sigPending' = FALSE
    /\ stop_event' = TRUE
    /\ UNCHANGED <<cfgVars, startVars, ioVars,
                   pc, exc, childVars, returncode, proc, termSent,
                   killSent, spawnCount, piper, taskVars, elapsed, termVars,
                   finDone>>

\* The child watcher reports the exit: proc.returncode becomes the status.
ObserveExit(r) ==
    /\ Suspended
    /\ os[r] = "exited"
    /\ returncode[r] = None
    /\ returncode' = [returncode EXCEPT ![r] = Some(code[r])]
    /\ UNCHANGED <<cfgVars, startVars, ioVars,
                   pc, exc, sigPending, stop_event, childVars, proc,
                   termSent, killSent, spawnCount, piper, taskVars, elapsed,
                   termVars, finDone>>

\* The task wrapping api_proc.wait() completes.
ApiWaitDone ==
    /\ Suspended
    /\ api_wait_task = "pending"
    /\ returncode["api"] # None
    /\ api_wait_task' = "done"
    /\ UNCHANGED <<cfgVars, startVars, ioVars,
                   pc, exc, sigPending, stop_event, childVars,
                   returncode, proc, termSent, killSent, spawnCount, piper,
                   tui_wait_task, stop_task, elapsed, termVars, finDone>>

\* The task wrapping tui_proc.wait() completes.
TuiWaitDone ==
    /\ Suspended
    /\ tui_wait_task = "pending"
    /\ returncode["ui"] # None
    /\ tui_wait_task' = "done"
    /\ UNCHANGED <<cfgVars, startVars, ioVars,
                   pc, exc, sigPending, stop_event, childVars,
                   returncode, proc, termSent, killSent, spawnCount, piper,
                   api_wait_task, stop_task, elapsed, termVars, finDone>>

\* The task wrapping stop_event.wait() completes.
StopWaitDone ==
    /\ Suspended
    /\ stop_task = "pending"
    /\ stop_event
    /\ stop_task' = "done"
    /\ UNCHANGED <<cfgVars, startVars, ioVars,
                   pc, exc, sigPending, stop_event, childVars,
                   returncode, proc, termSent, killSent, spawnCount, piper,
                   api_wait_task, tui_wait_task, elapsed, termVars, finDone>>

\* _pipe_stream ends: end-of-stream, or a stream error that it catches.
\* This is the supervisor's view, in which the lines of the streams are not
\* followed; PiperLine, PiperOverrun, PiperEof and PiperFail below follow them.
PiperEnd(r, s) ==
    /\ Suspended
    /\ piper[r][s] = "running"
    /\ piper' = [piper EXCEPT ![r][s] = "done"]
    /\ UNCHANGED <<cfgVars, startVars, ioVars,
                   pc, exc, sigPending, stop_event, childVars,
                   returncode, proc, termSent, killSent, spawnCount, taskVars,
                   elapsed, termVars, finDone>>

\* ------------------------------------------------------ main(): startup
\* The interpreter of an enabled role has not been found.
MissingRequired == (~no_api /\ ~db_python) \/ (~no_ui /\ ~tui_python)

\* Variant: only the API's interpreter is looked for before the API starts.
CheckExecutablesApiOnly ==
    /\ pc = "Idle"
    /\ pc' = IF ~no_api /\ ~db_python THEN "Exit1" ELSE "StartApi"
    /\ UNCHANGED <<cfgVars, startVars, ioVars,
                   exc, sigPending, stop_event, childVars, returncode,
                   proc, termSent, killSent, spawnCount, piper, taskVars,
                   elapsed, termVars, finDone>>

\* sys.exit(1) when the interpreter of an enabled role is missing.
CheckExecutables ==
    /\ pc = "Idle"
    /\ pc' = IF MissingRequired THEN "Exit1" ELSE "StartApi"
    /\ UNCHANGED <<cfgVars, startVars, ioVars,
                   exc, sigPending, stop_event, childVars, returncode,
                   proc, termSent, killSent, spawnCount, piper, taskVars,
                   elapsed, termVars, finDone>>

SkipApi ==
    /\ pc = "StartApi"
    /\ no_api
    /\ pc' = "StartUi"
    /\ UNCHANGED <<cfgVars, startVars, ioVars,
                   exc, sigPending, stop_event, childVars, returncode,
                   proc, termSent, killSent, spawnCount, piper, taskVars,
                   elapsed, termVars, finDone>>

\* spawn_process up to its await: the OS creates the child.
CreateSubprocess(r, at, next) ==
    /\ pc = at
    /\ os' = [os EXCEPT ![r] = "running"]
    /\ spawnCount' = [spawnCount EXCEPT ![r] = @ + 1]
    /\ pc' = next
    /\ tui_env' = IF r = "ui" THEN Some(api_url) ELSE tui_env
    /\ UNCHANGED <<cfgVars, probeResult, probeArgs, ioVars,
                   exc, sigPending, stop_event, code, returncode,
                   proc, termSent, killSent, piper, taskVars, elapsed,
                   termVars, finDone>>

\* spawn_process raises (log file or executable cannot be opened): the
\* exception leaves the try body and the finally block runs.
SpawnFails(at) ==
    /\ pc = at
    /\ exc' = TRUE
    /\ pc' = "FinUi"
    /\ probeResult' = None
    /\ tui_env' = IF at = "StartUi" THEN Some(api_url) ELSE tui_env
    /\ UNCHANGED <<cfgVars, probeArgs, ioVars,
                   sigPending, stop_event, childVars, returncode,
                   proc, termSent, killSent, spawnCount, piper, taskVars,
                   elapsed, termVars, finDone>>

\* spawn_process returns: the handle is bound, both pipers are created.
SpawnReturns(r, at, next) ==
    /\ pc = at
    /\ proc' = [proc EXCEPT ![r] = TRUE]
    /\ piper' = [piper EXCEPT ![r] = [s \in Streams |-> "running"]]
    /\ pc' = next
    /\ probeResult' = None
    /\ UNCHANGED <<cfgVars, tui_env, probeArgs, ioVars,
                   exc, sigPending, stop_event, childVars, returncode,
                   termSent, killSent, spawnCount, taskVars, elapsed, termVars,
                   finDone>>

SpawnApi == ~no_api /\ CreateSubprocess("api", "StartApi", "ApiSpawnAwait")

SpawnApiFails == ~no_api /\ SpawnFails("StartApi")

\* Variant: main() goes on to the UI without calling wait_for_http.
ApiSpawnedNoProbe == SpawnReturns("api", "ApiSpawnAwait", "StartUi")

ApiSpawned == SpawnReturns("api", "ApiSpawnAwait", "Probe")

\* wait_for_http: the loop test; on expiry it returns False and main goes on.
ProbeCheck ==
    /\ pc = "Probe"
    /\ IF elapsed < timeout
       THEN pc' = "Polling" /\ UNCHANGED <<elapsed, probeResult>>
       ELSE pc' = "StartUi" /\ elapsed' = 0 /\ probeResult' = Some(FALSE)
    /\ UNCHANGED <<cfgVars, tui_env, probeArgs, ioVars,
                   exc, sigPending, stop_event, childVars, returncode,
                   proc, termSent, killSent, spawnCount, piper, taskVars,
                   termVars, finDone>>

\* The endpoint answers a request issued now with a 2xx response; with upAt
\* None nothing is assumed about the endpoint.
Up == IF upAt = None THEN TRUE ELSE elapsed >= upAt[1]

\* The endpoint refuses a request issued now, or answers it outside 2xx.
Down == IF upAt = None THEN TRUE ELSE elapsed < upAt[1]

\* urlopen returns a 2xx response after d time units: wait_for_http is True.
PollHealthy ==
    /\ pc = "Polling"
    /\ \E d \in 0..MaxPollTicks : TRUE
    /\ Up
    /\ probeResult' = Some(TRUE)
    /\ pc' = "StartUi"
    /\ elapsed' = 0
    /\ UNCHANGED <<cfgVars, tui_env, probeArgs, ioVars,
                   exc, sigPending, stop_event, childVars, returncode,
                   proc, termSent, killSent, spawnCount, piper, taskVars,
                   termVars, finDone>>

\* urlopen raises URLError (refused, HTTP error status) or returns a status
\* outside 2xx: the probe goes to sleep.
PollNotYet ==
    /\ pc = "Polling"
    /\ Down
    /\ \E d \in 0..MaxPollTicks : elapsed' = Min(elapsed + d, timeout)
    /\ pc' = "ProbeSleep"
    /\ UNCHANGED <<cfgVars, startVars, ioVars,
                   exc, sigPending, stop_event, childVars, returncode,
                   proc, termSent, killSent, spawnCount, piper, taskVars,
                   termVars, finDone>>

\* urlopen raises something that is not a URLError (a timeout or a reset
\* while the response is read): it escapes wait_for_http and the try body.
PollRaises ==
    /\ pc = "Polling"
    /\ exc' = TRUE
    /\ elapsed' = 0
    /\ pc' = "FinUi"
    /\ UNCHANGED <<cfgVars, startVars, ioVars,
                   sigPending, stop_event, childVars, returncode,
                   proc, termSent, killSent, spawnCount, piper, taskVars,
                   termVars, finDone>>

\* asyncio.sleep(interval) is over.
ProbeWake ==
    /\ pc = "ProbeSleep"
    /\ elapsed' = Min(elapsed + interval, timeout)
    /\ pc' = "Probe"
    /\ UNCHANGED <<cfgVars, startVars, ioVars,
                   exc, sigPending, stop_event, childVars, returncode,
                   proc, termSent, killSent, spawnCount, piper, taskVars,
                   termVars, finDone>>

SkipUi ==
    /\ pc = "StartUi"
    /\ no_ui
    /\ pc' = "MakeTasks"
    /\ probeResult' = None
    /\ UNCHANGED <<cfgVars, tui_env, probeArgs, ioVars,
                   exc, sigPending, stop_event, childVars, returncode,
                   proc, termSent, killSent, spawnCount, piper, taskVars,
                   elapsed, termVars, finDone>>

SpawnUi == ~no_ui /\ CreateSubprocess("ui", "StartUi", "UiSpawnAwait")

SpawnUiFails == ~no_ui /\ SpawnFails("StartUi")

UiSpawned == SpawnReturns("ui", "UiSpawnAwait", "MakeTasks")

\* Variant: no wait condition is created for the stop event.
MakeTasksNoStop ==
    /\ pc = "MakeTasks"
    /\ api_wait_task' = IF proc["api"] /\ ~no_api THEN "pending" ELSE "none"
    /\ tui_wait_task' = IF proc["ui"] /\ ~no_ui THEN "pending" ELSE "none"
    /\ stop_task' = "none"
    /\ pc' = "Running"
    /\ UNCHANGED <<cfgVars, startVars, ioVars,
                   exc, sigPending, stop_event, childVars, returncode,
                   proc, termSent, killSent, spawnCount, piper, elapsed,
                   termVars, finDone>>

\* Variant: the stop task waits on an event that is cleared when it is made.
MakeTasksFreshEvent ==
    /\ pc = "MakeTasks"
    /\ api_wait_task' = IF proc["api"] /\ ~no_api THEN "pending" ELSE "none"
    /\ tui_wait_task' = IF proc["ui"] /\ ~no_ui THEN "pending" ELSE "none"
    /\ stop_task' = "pending"
    /\ stop_event' = FALSE
    /\ pc' = "Running"
    /\ UNCHANGED <<cfgVars, startVars, ioVars,
                   exc, sigPending, childVars, returncode,
                   proc, termSent, killSent, spawnCount, piper, elapsed,
                   termVars, finDone>>

\* The wait conditions: one task per spawned role, one for the stop event.
MakeTasks ==
    /\ pc = "MakeTasks"
    /\ api_wait_task' = IF proc["api"] /\ ~no_api THEN "pending" ELSE "none"
    /\ tui_wait_task' = IF proc["ui"] /\ ~no_ui THEN "pending" ELSE "none"
    /\ stop_task' = "pending"
    /\ pc' = "Running"
    /\ UNCHANGED <<cfgVars, startVars, ioVars,
                   exc, sigPending, stop_event, childVars, returncode,
                   proc, termSent, killSent, spawnCount, piper, elapsed,
                   termVars, finDone>>

\* ------------------------------------------------ main(): the wait loop
TaskStatus(t) ==
    CASE t = "api" -> api_wait_task
      [] t = "tui" -> tui_wait_task
      [] t = "stop" -> stop_task

\* active_tasks(): the tasks that exist and are not done.
active_tasks == {t \in {"api", "tui", "stop"} : TaskStatus(t) = "pending"}

\* The tasks handed to asyncio.wait: active_tasks() is taken right after the
\* tasks were created, before any of them could run.
WaitSet == {t \in {"api", "tui", "stop"} : TaskStatus(t) # "none"}

\* Variant: with one role enabled the wait still needs both roles' tasks.
WaitOverBoth ==
    IF no_api # no_ui THEN tui_wait_task = "done" /\ api_wait_task = "done"
    ELSE \/ WaitSet = {}
         \/ \E t \in WaitSet : TaskStatus(t) = "done"

\* The await of the Running state is over.
WaitOver ==
    IF no_api /\ ~no_ui THEN tui_wait_task = "done"
    ELSE IF ~no_api /\ no_ui THEN api_wait_task = "done"
    ELSE \/ WaitSet = {}
         \/ \E t \in WaitSet : TaskStatus(t) = "done"

\* Variant: the finally block forgets the UI and starts with the API.
LeaveRunningSkipUi ==
    /\ pc = "Running"
    /\ WaitOver
    /\ pc' = "FinApi"
    /\ UNCHANGED <<cfgVars, startVars, ioVars,
                   exc, sigPending, stop_event, childVars, returncode,
                   proc, termSent, killSent, spawnCount, piper, taskVars,
                   elapsed, termVars, finDone>>

\* Variant: restart-on-crash, a child's exit without a stop request leads
\* back to the start of the roles.
LeaveRunningRespawn ==
    /\ pc = "Running"
    /\ WaitOver
    /\ pc' = IF stop_task = "done" THEN "FinUi" ELSE "StartApi"
    /\ UNCHANGED <<cfgVars, startVars, ioVars,
                   exc, sigPending, stop_event, childVars, returncode,
                   proc, termSent, killSent, spawnCount, piper, taskVars,
                   elapsed, termVars, finDone>>

LeaveRunning ==
    /\ pc = "Running"
    /\ WaitOver
    /\ pc' = "FinUi"
    /\ UNCHANGED <<cfgVars, startVars, ioVars,
                   exc, sigPending, stop_event, childVars, returncode,
                   proc, termSent, killSent, spawnCount, piper, taskVars,
                   elapsed, termVars, finDone>>

\* ---------------------------------------------------- terminate_process
\* Where the caller of terminate_process continues after it returns.
Cont(p) ==
    CASE p = "TermUi" -> "FinApi"
      [] p = "TermApi" -> "Cancel"
      [] p = "InCall1" -> "Call2"
      [] p = "InCall2" -> "TDone"

\* terminate_process returns to its caller; the way it ended is recorded.
Return(how) ==
    /\ tpc' = "idle"
    /\ ret' = [ret EXCEPT ![tproc] =
                 Append(@, [how |-> how, rc |-> returncode[tproc],
                            os |-> os[tproc]])]
    /\ pc' = Cont(pc)
    /\ finDone' = IF pc = "TermUi" THEN [finDone EXCEPT !["ui"] = TRUE]
                  ELSE IF pc = "TermApi" THEN [finDone EXCEPT !["api"] = TRUE]
                  ELSE finDone

\* "if proc is None or proc.returncode is not None: return"
TermCheck ==
    /\ tpc = "check"
    /\ IF ~proc[tproc] \/ returncode[tproc] # None
       THEN Return("noop")
       ELSE tpc' = "sigterm" /\ UNCHANGED <<ret, pc, finDone>>
    /\ UNCHANGED <<cfgVars, startVars, ioVars,
                   exc, sigPending, stop_event, childVars, returncode,
                   proc, termSent, killSent, spawnCount, piper, taskVars,
                   elapsed, tproc, grace, graceElapsed, raisedAt>>

\* proc.terminate() does not raise: the wait for the exit begins.
TermSignal ==
    /\ tpc = "sigterm"
    /\ termSent' = [termSent EXCEPT ![tproc] = TRUE]
    /\ tpc' = "grace"
    /\ graceElapsed' = 0
    /\ UNCHANGED <<cfgVars, startVars, ioVars,
                   pc, exc, sigPending, stop_event, childVars,
                   returncode, proc, killSent, spawnCount, piper, taskVars,
                   elapsed, tproc, grace, ret, raisedAt, finDone>>

\* Variant: the ProcessLookupError of proc.terminate() is not caught.
TermLookupUncaught ==
    /\ tpc = "sigterm"
    /\ os[tproc] = "exited"
    /\ termSent' = [termSent EXCEPT ![tproc] = TRUE]
    /\ raisedAt' = "terminate"
    /\ tpc' = "idle"
    /\ pc' = "Crashed"
    /\ UNCHANGED <<cfgVars, startVars, ioVars,
                   exc, sigPending, stop_event, childVars, returncode,
                   proc, killSent, spawnCount, piper, taskVars, elapsed, tproc,
                   grace, graceElapsed, ret, finDone>>

\* proc.terminate() raises ProcessLookupError (the child is gone, its exit
\* not yet reported): "except ProcessLookupError: return".
TermLookupError ==
    /\ tpc = "sigterm"
    /\ os[tproc] = "exited"
    /\ termSent' = [termSent EXCEPT ![tproc] = TRUE]
    /\ Return("lookup")
    /\ UNCHANGED <<cfgVars, startVars, ioVars,
                   exc, sigPending, stop_event, childVars, returncode,
                   proc, killSent, spawnCount, piper, taskVars, elapsed, tproc,
                   grace, graceElapsed, raisedAt>>

\* Time passes while wait_for(proc.wait(), timeout=grace) is pending.
GraceTick ==
    /\ tpc = "grace"
    /\ graceElapsed < grace
    /\ graceElapsed' = graceElapsed + 1
    /\ UNCHANGED <<cfgVars, startVars, ioVars,
                   pc, exc, sigPending, stop_event, childVars,
                   returncode, proc, termSent, killSent, spawnCount, piper,
                   taskVars, elapsed, tpc, tproc, grace, ret, raisedAt,
                   finDone>>

\* proc.wait() completed within the grace period: "exited with ...".
\* (With a timeout of 0 wait_for cancels the wait before it can complete.)
WaitExited ==
    /\ tpc = "grace"
    /\ grace > 0
    /\ returncode[tproc] # None
    /\ Return("exited")
    /\ UNCHANGED <<cfgVars, startVars, ioVars,
                   exc, sigPending, stop_event, childVars, returncode,
                   proc, termSent, killSent, spawnCount, piper, taskVars,
                   elapsed, tproc, grace, graceElapsed, raisedAt>>

\* Variant: the wait gives up before the grace period is over.
WaitTimeoutEarly ==
    /\ tpc = "grace"
    /\ returncode[tproc] = None \/ grace = 0
    /\ tpc' = "kill"
    /\ UNCHANGED <<cfgVars, startVars, ioVars,
                   pc, exc, sigPending, stop_event, childVars,
                   returncode, proc, termSent, killSent, spawnCount, piper,
                   taskVars, elapsed, tproc, grace, graceElapsed, ret,
                   raisedAt, finDone>>

\* The grace period is over and the exit was not seen: wait_for cancels the
\* wait (yielding to the loop once more) and raises TimeoutError.
WaitTimeout ==
    /\ tpc = "grace"
    /\ graceElapsed >= grace
    /\ returncode[tproc] = None \/ grace = 0
    /\ tpc' = "kill"
    /\ UNCHANGED <<cfgVars, startVars, ioVars,
                   pc, exc, sigPending, stop_event, childVars,
                   returncode, proc, termSent, killSent, spawnCount, piper,
                   taskVars, elapsed, tproc, grace, graceElapsed, ret,
                   raisedAt, finDone>>

\* "kill (timeout)": proc.kill() does not raise; terminate_process returns
\* at once, without waiting for the exit.
Kill ==
    /\ tpc = "kill"
    /\ killSent' = [killSent EXCEPT ![tproc] = TRUE]
    /\ Return("killed")
    /\ UNCHANGED <<cfgVars, startVars, ioVars,
                   exc, sigPending, stop_event, childVars, returncode,
                   proc, termSent, spawnCount, piper, taskVars, elapsed, tproc,
                   grace, graceElapsed, raisedAt>>

\* proc.kill() raises ProcessLookupError (the child ended while the wait was
\* being cancelled); nothing catches it, so it leaves terminate_process and
\* the finally block of main().
KillLookupError ==
    /\ tpc = "kill"
    /\ os[tproc] = "exited"
    /\ killSent' = [killSent EXCEPT ![tproc] = TRUE]
    /\ raisedAt' = "kill"
    /\ tpc' = "idle"
    /\ pc' = "Crashed"
    /\ UNCHANGED <<cfgVars, startVars, ioVars,
                   exc, sigPending, stop_event, childVars, returncode,
                   proc, termSent, spawnCount, piper, taskVars, elapsed, tproc,
                   grace, graceElapsed, ret, finDone>>

\* ---------------------------------------------- main(): the finally block
\* "if p and p.returncode is None: await terminate_process(p, name)"
FinStep(r, at, call, skip) ==
    /\ pc = at
    /\ IF proc[r] /\ returncode[r] = None
       THEN /\ pc' = call
            /\ tpc' = "check"
            /\ tproc' = r
            /\ grace' = Grace
            /\ UNCHANGED finDone
       ELSE /\ pc' = skip
            /\ finDone' = [finDone EXCEPT ![r] = TRUE]
            /\ UNCHANGED <<tpc, tproc, grace>>
    /\ UNCHANGED <<cfgVars, startVars, ioVars,
                   exc, sigPending, stop_event, childVars, returncode,
                   proc, termSent, killSent, spawnCount, piper, taskVars,
                   elapsed, graceElapsed, ret, raisedAt>>

FinUi == FinStep("ui", "FinUi", "TermUi", "FinApi")

FinApi == FinStep("api", "FinApi", "TermApi", "Cancel")

\* The pipers that are not done are cancelled.  The second loop finds no
\* task: locals() is evaluated inside the generator expression, where
\* stop_task, api_wait_task and tui_wait_task are not defined.  Then the
\* completion marker "All done." is printed.
Cancel ==
    /\ pc = "Cancel"
    /\ piper' = [r \in Roles |-> [s \in Streams |->
                    IF piper[r][s] = "running" THEN "cancelled"
                    ELSE piper[r][s]]]
    /\ pc' = "Stopped"
    /\ UNCHANGED <<cfgVars, startVars, ioVars,
                   exc, sigPending, stop_event, childVars, returncode,
                   proc, termSent, killSent, spawnCount, taskVars, elapsed,
                   termVars, finDone>>

\* --------------------------------------------------------- specification
Children ==
    \E r \in Roles : ChildExit(r) \/ TermDeath(r) \/ KillDeath(r)

EventLoop ==
    \/ handle_sig
    \/ \E r \in Roles : ObserveExit(r)
    \/ ApiWaitDone \/ TuiWaitDone \/ StopWaitDone
    \/ \E r \in Roles, s \in Streams : PiperEnd(r, s)

Startup ==
    \/ CheckExecutables
    \/ SkipApi \/ SpawnApi \/ SpawnApiFails \/ ApiSpawned
    \/ ProbeCheck \/ PollHealthy \/ PollNotYet \/ PollRaises \/ ProbeWake
    \/ SkipUi \/ SpawnUi \/ SpawnUiFails \/ UiSpawned
    \/ MakeTasks

Terminate ==
    \/ TermCheck \/ TermSignal \/ TermLookupError
    \/ GraceTick \/ WaitExited \/ WaitTimeout
    \/ Kill \/ KillLookupError

Shutdown == FinUi \/ FinApi \/ Cancel

Main == Startup \/ LeaveRunning \/ Shutdown \/ Terminate

Next == Main \/ EventLoop \/ Children \/ Signal

Spec == Init /\ [][Next]_vars

\* The exit code of the orchestrator once asyncio.run(main()) is over:
\* sys.exit(1), a normal return of main(), or an exception out of main().
ExitCode ==
    CASE pc = "Exit1" -> Some(1)
      [] pc = "Stopped" /\ ~exc -> Some(0)
      [] pc = "Stopped" /\ exc -> Some(1)
      [] pc = "Crashed" -> Some(1)
      [] OTHER -> None

\* Fairness: the supervisor coroutine, the event loop's callbacks and the
\* delivery of SIGKILL make progress.  Nothing obliges a child to exit on
\* its own or to honour SIGTERM, nor a signal to arrive.
Observe ==
    \/ \E r \in Roles : ObserveExit(r)
    \/ ApiWaitDone \/ TuiWaitDone \/ StopWaitDone

FairSpec ==
    /\ Spec
    /\ WF_vars(Main)
    /\ WF_vars(handle_sig)
    /\ WF_vars(Observe)
    /\ WF_vars(\E r \in Roles : KillDeath(r))

\* ------------------------------------- terminate_process exercised alone
\* One spawned child (running, or already gone with its exit seen or not)
\* on which terminate_process is called twice in succession, for every
\* grace period up to MaxGrace.
InitTerm ==
    /\ no_api = FALSE /\ no_ui = TRUE
    /\ db_python = TRUE /\ tui_python = FALSE
    /\ pc = "Call1"
    /\ exc = FALSE
    /\ sigPending = FALSE
    /\ stop_event = FALSE
    /\ \E o \in {"running", "exited"} : os = [r \in Roles |->
            IF r = "api" THEN o ELSE "none"]
    /\ \E c \in OwnExitCodes : code = [r \in Roles |->
            IF r = "api" /\ os[r] = "exited" THEN c ELSE 0]
    /\ \E seen \in BOOLEAN : returncode = [r \in Roles |->
            IF r = "api" /\ os[r] = "exited" /\ seen
            THEN Some(code[r]) ELSE None]
    /\ proc = [r \in Roles |-> r = "api"]
    /\ termSent = [r \in Roles |-> FALSE]
    /\ killSent = [r \in Roles |-> FALSE]
    /\ spawnCount = [r \in Roles |-> IF r = "api" THEN 1 ELSE 0]
    /\ piper = [r \in Roles |->
            IF r = "api" THEN [s \in Streams |-> "running"] ELSE NoPipers]
    /\ api_wait_task = "none" /\ tui_wait_task = "none" /\ stop_task = "none"
    /\ elapsed = 0
    /\ tpc = "idle" /\ tproc = "api"
    /\ grace \in 0..MaxGrace
    /\ graceElapsed = 0
    /\ ret = [r \in Roles |-> <<>>]
    /\ raisedAt = "none"
    /\ finDone = [r \in Roles |-> FALSE]
    /\ probeResult = None
    /\ tui_env = None
    /\ timeout = Timeout /\ interval = Interval
    /\ upAt = None
    /\ emitted = [r \in Roles |-> NoLines]
    /\ pipe = [r \in Roles |-> NoLines]
    /\ sink = [r \in Roles |-> <<>>]
    /\ console = <<>>

\* await terminate_process(proc, name, grace)
Call(at, in) ==
    /\ pc = at
    /\ pc' = in
    /\ tpc' = "check"
    /\ tproc' = "api"
    /\ UNCHANGED <<cfgVars, startVars, ioVars,
                   exc, sigPending, stop_event, childVars, returncode,
                   proc, termSent, killSent, spawnCount, piper, taskVars,
                   elapsed, grace, graceElapsed, ret, raisedAt, finDone>>

Call1 == Call("Call1", "InCall1")

Call2 == Call("Call2", "InCall2")

NextTerm ==
    \/ Call1 \/ Call2
    \/ Terminate
    \/ Children
    \/ \E r \in Roles : ObserveExit(r)

SpecTerm == InitTerm /\ [][NextTerm]_vars

\* ------------------------------------------- _pipe_stream and the streams
\* A line is the sequence of its bytes without the final newline.  "x80"
\* is a byte that is no valid UTF-8; " " is trailing whitespace.
Lines == {<<"a">>, <<"x80", " ">>, <<"c", "c", "c">>}

\* The state of main() and of the tasks other than the pipers.
supVars == <<cfgVars, startVars, pc, exc, sigPending, stop_event, returncode,
             proc, termSent, killSent, spawnCount, taskVars, elapsed,
             termVars, finDone>>

\* bytes.decode(errors="replace"), byte by byte
Decode(c) == IF c = "x80" THEN "ufffd" ELSE c

Whitespace == {" "}

\* str.rstrip()
RECURSIVE rstrip(_)
rstrip(t) ==
    IF t # <<>> /\ t[Len(t)] \in Whitespace
    THEN rstrip(SubSeq(t, 1, Len(t) - 1))
    ELSE t

\* text = line.decode(errors="replace").rstrip()
Text(line) == rstrip([i \in 1..Len(line) |-> Decode(line[i])])

\* A write of the child to the stream blocks: the pipe and the reader's
\* buffer are full, and only readline() empties them.
WriteBlocks(r, s) == Len(pipe[r][s]) >= PipeCap

\* The child writes one line to its stdout or stderr pipe.
ChildWrite(r, s, line) ==
    /\ ~Terminated
    /\ os[r] = "running"
    /\ Len(emitted[r][s]) < MaxLines
    /\ ~WriteBlocks(r, s)
    /\ emitted' = [emitted EXCEPT ![r][s] = Append(@, line)]
    /\ pipe' = [pipe EXCEPT ![r][s] = Append(@, line)]
    /\ UNCHANGED <<supVars, childVars, piper, sink, console>>

\* What one turn of the loop leaves in the log file: tee_file.write(text +
\* "\n") and tee_file.flush(), with no await in between.  Field s notes the
\* piper that wrote it; the file itself holds no prefix.
LogEntry(s, text) == [s |-> s, text |-> text, nl |-> TRUE, flushed |-> TRUE]

\* Variant: the text is written without its newline and left in the buffer.
PiperLineFragment(r, s) ==
    /\ Suspended
    /\ piper[r][s] = "running"
    /\ pipe[r][s] # <<>>
    /\ Len(Head(pipe[r][s])) <= StreamLimit
    /\ pipe' = [pipe EXCEPT ![r][s] = Tail(@)]
    /\ console' = Append(console,
            [r |-> r, s |-> s, kind |-> "line",
             text |-> Text(Head(pipe[r][s]))])
    /\ sink' = [sink EXCEPT ![r] =
            Append(@, [s |-> s, text |-> Text(Head(pipe[r][s])),
                       nl |-> FALSE, flushed |-> FALSE])]
    /\ UNCHANGED <<supVars, childVars, piper, emitted>>

\* One turn of the loop: readline() returns a line, which is printed with
\* the prefix and written to the log file.
PiperLine(r, s) ==
    /\ Suspended
    /\ piper[r][s] = "running"
    /\ pipe[r][s] # <<>>
    /\ Len(Head(pipe[r][s])) <= StreamLimit
    /\ pipe' = [pipe EXCEPT ![r][s] = Tail(@)]
    /\ console' = Append(console,
            [r |-> r, s |-> s, kind |-> "line",
             text |-> Text(Head(pipe[r][s]))])
    /\ sink' = [sink EXCEPT ![r] =
            Append(@, LogEntry(s, Text(Head(pipe[r][s]))))]
    /\ UNCHANGED <<supVars, childVars, piper, emitted>>

\* readline() meets a line longer than the reader's limit: it drops the
\* line and raises ValueError, which the except clause prints; the task ends.
PiperOverrun(r, s) ==
    /\ Suspended
    /\ piper[r][s] = "running"
    /\ pipe[r][s] # <<>>
    /\ Len(Head(pipe[r][s])) > StreamLimit
    /\ pipe' = [pipe EXCEPT ![r][s] = Tail(@)]
    /\ console' = Append(console,
            [r |-> r, s |-> s, kind |-> "error", text |-> <<"ValueError">>])
    /\ piper' = [piper EXCEPT ![r][s] = "done"]
    /\ UNCHANGED <<supVars, childVars, emitted, sink>>

\* readline() returns b"" at end-of-stream: break.
PiperEof(r, s) ==
    /\ Suspended
    /\ piper[r][s] = "running"
    /\ pipe[r][s] = <<>>
    /\ os[r] = "exited"
    /\ piper' = [piper EXCEPT ![r][s] = "done"]
    /\ UNCHANGED <<supVars, childVars, emitted, pipe, sink, console>>

\* An I/O error: readline() raises, or the line is read and printed and the
\* write to the log file raises.  The except clause prints it; the task ends.
PiperFail(r, s, at) ==
    /\ Suspended
    /\ piper[r][s] = "running"
    /\ IF at = "read"
       THEN /\ console' = Append(console,
                    [r |-> r, s |-> s, kind |-> "error",
                     text |-> <<"OSError">>])
            /\ UNCHANGED pipe
       ELSE /\ pipe[r][s] # <<>>
            /\ Len(Head(pipe[r][s])) <= StreamLimit
            /\ pipe' = [pipe EXCEPT ![r][s] = Tail(@)]
            /\ console' = console \o
                    << [r |-> r, s |-> s, kind |-> "line",
                        text |-> Text(Head(pipe[r][s]))],
                       [r |-> r, s |-> s, kind |-> "error",
                        text |-> <<"OSError">>] >>
    /\ piper' = [piper EXCEPT ![r][s] = "done"]
    /\ UNCHANGED <<supVars, childVars, emitted, sink>>

Pipers ==
    \/ \E r \in Roles, s \in Streams : PiperLine(r, s)
    \/ \E r \in Roles, s \in Streams : PiperOverrun(r, s)
    \/ \E r \in Roles, s \in Streams : PiperEof(r, s)
    \/ \E r \in Roles, s \in Streams, at \in {"read", "write"} :
            PiperFail(r, s, at)

\* The supervisor of one API process, waiting in its loop, with nothing
\* written yet.
InitPipe ==
    /\ no_api = FALSE /\ no_ui = TRUE
    /\ db_python = TRUE /\ tui_python = FALSE
    /\ pc = "Running"
    /\ exc = FALSE
    /\ sigPending = FALSE
    /\ stop_event = FALSE
    /\ os = [r \in Roles |-> IF r = "api" THEN "running" ELSE "none"]
    /\ code = [r \in Roles |-> 0]
    /\ returncode = [r \in Roles |-> None]
    /\ proc = [r \in Roles |-> r = "api"]
    /\ termSent = [r \in Roles |-> FALSE]
    /\ killSent = [r \in Roles |-> FALSE]
    /\ spawnCount = [r \in Roles |-> IF r = "api" THEN 1 ELSE 0]
    /\ piper = [r \in Roles |->
            IF r = "api" THEN [s \in Streams |-> "running"] ELSE NoPipers]
    /\ api_wait_task = "pending" /\ tui_wait_task = "none"
    /\ stop_task = "pending"
    /\ elapsed = 0
    /\ tpc = "idle" /\ tproc = "api"
    /\ grace = Grace
    /\ graceElapsed = 0
    /\ ret = [r \in Roles |-> <<>>]
    /\ raisedAt = "none"
    /\ finDone = [r \in Roles |-> FALSE]
    /\ probeResult = None
    /\ tui_env = None
    /\ timeout = Timeout /\ interval = Interval
    /\ upAt = None
    /\ emitted = [r \in Roles |-> NoLines]
    /\ pipe = [r \in Roles |-> NoLines]
    /\ sink = [r \in Roles |-> <<>>]
    /\ console = <<>>

\* The pipers of a running child, up to its end-of-stream.
NextPipe ==
    \/ \E s \in Streams, line \in Lines : ChildWrite("api", s, line)
    \/ ChildExit("api")
    \/ Pipers

SpecPipe == InitPipe /\ [][NextPipe]_vars

\* ------------------------------------------ wait_for_http exercised alone
\* The API has been spawned and main() calls wait_for_http, for every
\* timeout up to MaxTimeout and interval up to MaxInterval, against an
\* endpoint that answers 2xx from three intervals after the call on.
InitProbe ==
    /\ no_api = FALSE /\ no_ui = TRUE
    /\ db_python = TRUE /\ tui_python = FALSE
    /\ pc = "Probe"
    /\ exc = FALSE
    /\ sigPending = FALSE
    /\ stop_event = FALSE
    /\ os = [r \in Roles |-> IF r = "api" THEN "running" ELSE "none"]
    /\ code = [r \in Roles |-> 0]
    /\ returncode = [r \in Roles |-> None]
    /\ proc = [r \in Roles |-> r = "api"]
    /\ termSent = [r \in Roles |-> FALSE]
    /\ killSent = [r \in Roles |-> FALSE]
    /\ spawnCount = [r \in Roles |-> IF r = "api" THEN 1 ELSE 0]
    /\ piper = [r \in Roles |->
            IF r = "api" THEN [s \in Streams |-> "running"] ELSE NoPipers]
    /\ api_wait_task = "none" /\ tui_wait_task = "none" /\ stop_task = "none"
    /\ elapsed = 0
    /\ tpc = "idle" /\ tproc = "api"
    /\ grace = Grace
    /\ graceElapsed = 0
    /\ ret = [r \in Roles |-> <<>>]
    /\ raisedAt = "none"
    /\ finDone = [r \in Roles |-> FALSE]
    /\ probeResult = None
    /\ tui_env = None
    /\ timeout \in 0..MaxTimeout
    /\ interval \in 1..MaxInterval
    /\ upAt = Some(3 * interval)
    /\ emitted = [r \in Roles |-> NoLines]
    /\ pipe = [r \in Roles |-> NoLines]
    /\ sink = [r \in Roles |-> <<>>]
    /\ console = <<>>

NextProbe == ProbeCheck \/ PollHealthy \/ PollNotYet \/ ProbeWake

SpecProbe == InitProbe /\ [][NextProbe]_vars

\* ------------------------------------- the finally block and the streams
\* main() enters the finally block on a startup exception (a poll of the
\* probe has raised) with the API running and nothing written yet; the
\* child goes on writing lines while it is terminated.
InitDrain ==
    /\ no_api = FALSE /\ no_ui = TRUE
    /\ db_python = TRUE /\ tui_python = FALSE
    /\ pc = "FinUi"
    /\ exc = TRUE
    /\ sigPending = FALSE
    /\ stop_event = FALSE
    /\ os = [r \in Roles |-> IF r = "api" THEN "running" ELSE "none"]
    /\ code = [r \in Roles |-> 0]
    /\ returncode = [r \in Roles |-> None]
    /\ proc = [r \in Roles |-> r = "api"]
    /\ termSent = [r \in Roles |-> FALSE]
    /\ killSent = [r \in Roles |-> FALSE]
    /\ spawnCount = [r \in Roles |-> IF r = "api" THEN 1 ELSE 0]
    /\ piper = [r \in Roles |->
            IF r = "api" THEN [s \in Streams |-> "running"] ELSE NoPipers]
    /\ api_wait_task = "none" /\ tui_wait_task = "none" /\ stop_task = "none"
    /\ elapsed = 0
    /\ tpc = "idle" /\ tproc = "api"
    /\ grace = Grace
    /\ graceElapsed = 0
    /\ ret = [r \in Roles |-> <<>>]
    /\ raisedAt = "none"
    /\ finDone = [r \in Roles |-> FALSE]
    /\ probeResult = None
    /\ tui_env = None
    /\ timeout = Timeout /\ interval = Interval
    /\ upAt = None
    /\ emitted = [r \in Roles |-> NoLines]
    /\ pipe = [r \in Roles |-> NoLines]
    /\ sink = [r \in Roles |-> <<>>]
    /\ console = <<>>

NextDrain ==
    \/ Shutdown
    \/ Terminate
    \/ Children
    \/ \E r \in Roles : ObserveExit(r)
    \/ \E s \in Streams : ChildWrite("api", s, <<"a">>)
    \/ \E r \in Roles, s \in Streams : PiperLine(r, s)
    \/ \E r \in Roles, s \in Streams : PiperEof(r, s)

SpecDrain == InitDrain /\ [][NextDrain]_vars

\* ------------------------------------- wait_for_http and the event loop
\* The probe of SpecProbe together with what the event loop has to serve
\* meanwhile: lines written by the API child and a delivered signal.
NextProbeIo ==
    \/ NextProbe
    \/ PollRaises
    \/ \E s \in Streams : ChildWrite("api", s, <<"a">>)
    \/ \E s \in Streams : PiperLine("api", s)
    \/ Signal
    \/ handle_sig

SpecProbeIo == InitProbe /\ [][NextProbeIo]_vars

\* ------------------------------------------------------------ properties
InShutdown == pc \in {"FinUi", "TermUi", "FinApi", "TermApi", "Cancel"}

\* C1: once the stop flag is set, no new child process is spawned.
C1_NoSpawnAfterStop ==
    [][stop_event => spawnCount' = spawnCount]_vars

\* C2: in every configuration a stop signal handled while the supervisor is
\* in Running ends the wait: the supervisor enters ShuttingDown although no
\* child exits.
C2_StopInterruptsRunning ==
    (pc = "Running" /\ stop_event) ~> InShutdown

\* C3: when both roles were spawned, the API is not sent a termination
\* request, nor is terminate_process invoked on it, before the UI's step of
\* the shutdown is over with the UI gone or killed.
C3_UiBeforeApi ==
    (proc["api"] /\ proc["ui"]) =>
        ((termSent["api"] \/ pc = "TermApi") =>
            /\ finDone["ui"]
            /\ os["ui"] = "exited" \/ killSent["ui"])

C3_Witness ==
    /\ proc["api"] /\ proc["ui"]
    /\ killSent["ui"]
    /\ termSent["api"]

\* C4: whenever terminate_process returns, the child is no longer running,
\* and after a forced kill its exit status has been recorded.
C4_TerminateLeavesNoProcess ==
    \A r \in Roles : \A i \in DOMAIN ret[r] :
        /\ ret[r][i].os # "running"
        /\ ret[r][i].how = "killed" => ret[r][i].rc # None

\* C5: with both roles started, once one child has exited while the other
\* is up, the supervisor sends the other a termination request and reaches
\* Stopped (unless the other exits unasked as well); main() does not end
\* in any other way.
C5_ChildExitLeadsToStopped ==
    /\ []((proc["api"] /\ proc["ui"]) => pc # "Crashed")
    /\ (os["ui"] = "exited" /\ os["api"] = "running")
          ~> \/ pc = "Stopped" /\ termSent["api"]
             \/ os["api"] = "exited" /\ ~termSent["api"]
    /\ (os["api"] = "exited" /\ os["ui"] = "running")
          ~> \/ pc = "Stopped" /\ termSent["ui"]
             \/ os["ui"] = "exited" /\ ~termSent["ui"]

\* C6: each role is spawned at most once, and no process is spawned for a
\* role whose child has exited.
C6_SpawnedAtMostOnce ==
    /\ [](\A r \in Roles : spawnCount[r] <= 1)
    /\ [][\A r \in Roles :
            os[r] = "exited" => spawnCount'[r] = spawnCount[r]]_vars

C6_Witness ==
    /\ pc = "Stopped"
    /\ spawnCount["api"] = 1 /\ spawnCount["ui"] = 1
    /\ os["ui"] = "exited" /\ ~termSent["ui"]

\* C7: with both roles disabled nothing is spawned, the supervisor leaves
\* Running only after a stop signal was handled, and a delivered stop signal
\* leads to Stopped without an error.
C7_NoRoleBlocksOnStop ==
    /\ []((no_api /\ no_ui) =>
            /\ \A r \in Roles : spawnCount[r] = 0
            /\ (InShutdown \/ pc = "Stopped") => stop_event)
    /\ (no_api /\ no_ui /\ (sigPending \/ stop_event))
          ~> (pc = "Stopped" /\ ~exc)

C7_Witness ==
    /\ no_api /\ no_ui
    /\ pc = "Stopped"
    /\ stop_event

\* C8: with exactly one role enabled no wait task exists for the disabled
\* role, and once the enabled role's wait task is done the supervisor can
\* leave Running, stop signal or not.
C8_SingleRoleWait ==
    (no_api # no_ui) =>
        /\ no_api => api_wait_task = "none"
        /\ no_ui => tui_wait_task = "none"
        /\ (pc = "Running" /\ (IF no_api THEN tui_wait_task
                                ELSE api_wait_task) = "done")
              => ENABLED LeaveRunning

C8_Witness ==
    /\ no_api # no_ui
    /\ pc = "FinUi"
    /\ ~exc
    /\ ~stop_event /\ ~sigPending
    /\ stop_task = "pending"

\* C9: a second terminate_process on the same handle does not raise and
\* leaves the exit status as it was when the first call returned, after a
\* clean exit as after a forced kill.
C9_TerminateIdempotent ==
    LET r == ret["api"] IN
    /\ (Len(r) = 2 /\ r[1].how \in {"exited", "killed"}) => r[2].rc = r[1].rc
    /\ (Len(r) = 1 /\ r[1].how \in {"exited", "killed"}) => pc # "Crashed"

\* C10: terminate_process on a child whose exit was already seen returns at
\* once without signalling; a ProcessLookupError of proc.terminate() makes
\* it return without waiting or killing; neither case raises.
C10_TerminateExitedIsNoop ==
    /\ [](raisedAt # "terminate")
    /\ [][/\ (tpc = "check" /\ tpc' # "check" /\ returncode[tproc] # None)
             => /\ tpc' = "idle" /\ pc' = Cont(pc)
                /\ termSent' = termSent /\ killSent' = killSent
          /\ (tpc = "sigterm" /\ tpc' \notin {"sigterm", "grace"})
             => /\ tpc' = "idle" /\ pc' = Cont(pc)
                /\ killSent' = killSent /\ graceElapsed' = graceElapsed]_vars

C10_Witness ==
    /\ pc = "Call2"
    /\ Len(ret["api"]) = 1
    /\ ret["api"][1].how = "lookup"

\* The texts of a sequence of lines, as _pipe_stream writes them.
TextSeq(ls) == [i \in 1..Len(ls) |-> Text(ls[i])]

RECURSIVE Texts(_)
Texts(es) ==
    IF es = <<>> THEN <<>> ELSE <<Head(es).text>> \o Texts(Tail(es))

\* What the piper of stream s of process r printed as lines.
IsLineOf(r, s, e) == e.r = r /\ e.s = s /\ e.kind = "line"
Printed(r, s) == Texts(SelectSeq(console, LAMBDA e : IsLineOf(r, s, e)))

\* What the piper of stream s of process r wrote to the log file.
IsFrom(s, e) == e.s = s
Logged(r, s) == Texts(SelectSeq(sink[r], LAMBDA e : IsFrom(s, e)))

\* The piper of stream s of process r printed a stream error of kind e.
StreamError(r, s, e) ==
    \E i \in 1..Len(console) :
        console[i] = [r |-> r, s |-> s, kind |-> "error", text |-> <<e>>]

\* C11: when the child has exited, so that its streams have ended, and the
\* piper of a stream is over without having met an I/O error, the piper has
\* printed and logged exactly the lines the child emitted on that stream,
\* each once and in order, and has ended without reporting a stream error.
C11_PiperWritesEmitted ==
    \A r \in Roles, s \in Streams :
        (/\ os[r] = "exited"
         /\ piper[r][s] = "done"
         /\ ~StreamError(r, s, "OSError")) =>
            /\ Printed(r, s) = TextSeq(emitted[r][s])
            /\ Logged(r, s) = TextSeq(emitted[r][s])
            /\ ~StreamError(r, s, "ValueError")

\* The piper of stream s of process r ended on an error it caught.
Failed(r, s) ==
    /\ piper[r][s] = "done"
    /\ StreamError(r, s, "OSError") \/ StreamError(r, s, "ValueError")

\* C12: after a piper ended on an I/O error the supervisor is where it was,
\* no exception has reached it, and the child, while it runs, is not blocked
\* when it writes to the stream of the failed piper.
C12_PiperErrorIsolated ==
    \A r \in Roles, s \in Streams :
        Failed(r, s) =>
            /\ pc = "Running" /\ ~exc
            /\ os[r] = "running" => ~WriteBlocks(r, s)

\* C13: against an endpoint that answers 2xx from exactly three intervals
\* after the call on, wait_for_http returns True when timeout >= 4 x interval
\* and False when timeout < 3 x interval.
C13_ProbeTiming ==
    (pc = "StartUi" /\ upAt = Some(3 * interval)) =>
        /\ timeout >= 4 * interval => probeResult = Some(TRUE)
        /\ timeout < 3 * interval => probeResult = Some(FALSE)

\* C14: a poll of the health probe ends either with a 2xx response or as
\* "not yet healthy", after which the probe sleeps and polls again; no
\* poll raises into main() and aborts the startup.
C14_PollFailureIsNotYet ==
    [][pc = "Polling" =>
          /\ pc' \in {"StartUi", "ProbeSleep"}
          /\ exc' = exc]_vars

\* The steps of main() that come before the UI step.
BeforeUi ==
    pc \in {"Idle", "StartApi", "ApiSpawnAwait", "Probe", "Polling",
            "ProbeSleep"}

\* C15: with the API enabled, no UI exists before the probe has returned;
\* when the UI subprocess is created the API has been spawned, the probe
\* has returned (True or False) and the UI's environment holds the API's
\* URL; and once the probe has returned, whatever its value, main() is at
\* the UI step, where the spawn of an enabled UI is possible.
C15_UiAfterProbe ==
    /\ BeforeUi => spawnCount["ui"] = 0
    /\ (pc = "UiSpawnAwait" /\ ~no_api) =>
            /\ spawnCount["api"] = 1
            /\ probeResult # None
            /\ tui_env = Some(api_url)
    /\ probeResult # None => pc \in {"StartUi", "UiSpawnAwait"}
    /\ (pc = "StartUi" /\ ~no_ui) => ENABLED SpawnUi

\* The UI has been spawned, with the URL, after the probe returned False.
C15_Witness ==
    /\ ~no_api /\ ~no_ui
    /\ pc = "UiSpawnAwait"
    /\ spawnCount["ui"] = 1
    /\ probeResult = Some(FALSE)
    /\ tui_env = Some(api_url)

\* C16: when the interpreter of an enabled role is missing no process is
\* ever spawned and the orchestrator ends with exit code 1; when only the
\* interpreter of a disabled role is missing the orchestrator does not end
\* that way; a shutdown started by a signal that ends without an exception
\* gives exit code 0.
C16_ExecutableCheck ==
    /\ MissingRequired =>
            /\ pc \in {"Idle", "Exit1"}
            /\ \A r \in Roles : spawnCount[r] = 0
    /\ pc = "Exit1" => MissingRequired /\ ExitCode = Some(1)
    /\ (pc = "Stopped" /\ stop_event /\ ~exc) => ExitCode = Some(0)

\* The UI's interpreter is missing, the API's is not: the orchestrator has
\* ended without spawning the API.
C16_Witness ==
    /\ ~no_api /\ ~no_ui /\ db_python /\ ~tui_python
    /\ pc = "Exit1"
    /\ spawnCount["api"] = 0

\* spawn_process has raised for the UI: its environment was built and no
\* handle was bound.
UiSpawnFailed == exc /\ tui_env # None /\ ~proc["ui"]

\* C17: after the spawn of the UI has failed with the API spawned, main()
\* never reaches the wait loop and spawns nothing again; when the
\* orchestrator is over it has printed "All done." and ends with exit code
\* 1, no child runs and no piper is left running.
C17_SpawnFailureShutsDown ==
    (UiSpawnFailed /\ proc["api"]) =>
        /\ pc \notin {"UiSpawnAwait", "MakeTasks", "Running"}
        /\ spawnCount["ui"] = 0 /\ spawnCount["api"] = 1
        /\ Terminated =>
                /\ pc = "Stopped" /\ ExitCode = Some(1)
                /\ \A r \in Roles : os[r] # "running"
                /\ \A r \in Roles, s \in Streams : piper[r][s] # "running"

\* The lifecycle state of the supervisor that a step of main() belongs to:
\* 0 Idle, 1 Starting, 2 Running, 3 ShuttingDown, 4 Stopped.
Lifecycle(p) ==
    CASE p = "Idle" -> 0
      [] p \in {"StartApi", "ApiSpawnAwait", "Probe", "Polling",
                "ProbeSleep", "StartUi", "UiSpawnAwait", "MakeTasks"} -> 1
      [] p = "Running" -> 2
      [] p \in {"FinUi", "TermUi", "FinApi", "TermApi", "Cancel"} -> 3
      [] OTHER -> 4

\* C18: the lifecycle never moves backwards; a run that got past the
\* executable check ends in Stopped and in no other way; "All done." is
\* printed only when both terminate steps are over and no piper is left
\* running; and after it main() spawns nothing, signals no child and
\* cancels no task.
C18_LifecycleForward ==
    /\ [][Lifecycle(pc') >= Lifecycle(pc)]_vars
    /\ [][pc = "Stopped" =>
            UNCHANGED <<pc, spawnCount, termSent, killSent, piper,
                        taskVars>>]_vars
    /\ [](pc = "Stopped" =>
            /\ finDone["ui"] /\ finDone["api"]
            /\ \A r \in Roles, s \in Streams : piper[r][s] # "running")
    /\ []((Terminated /\ pc # "Exit1") => pc = "Stopped")

\* C19: when "All done." is printed every line a child has written is on the
\* console and in its log file, and no piper is cancelled while lines of
\* its stream are unread.
C19_DrainedBeforeStopped ==
    /\ [][\A r \in Roles, s \in Streams :
            (piper[r][s] = "running" /\ piper'[r][s] = "cancelled") =>
                pipe[r][s] = <<>>]_vars
    /\ [](pc = "Stopped" =>
            \A r \in Roles, s \in Streams :
                /\ Printed(r, s) = TextSeq(emitted[r][s])
                /\ Logged(r, s) = TextSeq(emitted[r][s]))

\* C20: a task is cancelled only when both terminate steps are over, a
\* piper that has ended by itself stays as it is, and when "All done." is
\* printed no piper is left running and no wait task is left pending.
C20_TasksCancelled ==
    /\ (\E r \in Roles, s \in Streams : piper[r][s] = "cancelled") =>
            finDone["ui"] /\ finDone["api"]
    /\ pc = "Stopped" =>
            /\ \A r \in Roles, s \in Streams : piper[r][s] # "running"
            /\ \A t \in {"api", "tui", "stop"} : TaskStatus(t) # "pending"

\* C21: while a poll of the probe is in flight the pipers of the API can
\* take the lines that are waiting in their streams and a delivered signal
\* can set the stop flag.
C21_ProbeDoesNotBlock ==
    pc = "Polling" =>
        /\ \A s \in Streams :
                (piper["api"][s] = "running" /\ pipe["api"][s] # <<>>) =>
                    ENABLED PiperLine("api", s)
        /\ sigPending => ENABLED handle_sig

\* p is an initial part of q.
IsPrefix(p, q) == Len(p) <= Len(q) /\ p = SubSeq(q, 1, Len(p))

\* C22: every entry of the log file of a process is the whole text of one
\* line of one of its two streams, ended by a newline and flushed; the
\* entries of one stream are in the order of its lines, however the two
\* pipers of the process interleave.
C22_LogLinesWhole ==
    \A r \in Roles :
        /\ \A i \in 1..Len(sink[r]) :
                /\ sink[r][i].nl /\ sink[r][i].flushed
                /\ sink[r][i].s \in Streams
                /\ \E j \in 1..Len(emitted[r][sink[r][i].s]) :
                        sink[r][i].text = Text(emitted[r][sink[r][i].s][j])
        /\ \A s \in Streams :
                IsPrefix(Logged(r, s), TextSeq(emitted[r][s]))

\* The log file of the API holds a line of stderr between two of stdout.
C22_Witness ==
    /\ Len(sink["api"]) >= 3
    /\ sink["api"][1].s = "out"
    /\ sink["api"][2].s = "err"
    /\ sink["api"][3].s = "out"

\* A signal handler runs in this step.
SigHandled == sigPending /\ ~sigPending'

\* C23: the stop flag is clear when main() starts, only the run of a signal
\* handler sets it, no step clears it, and the handler of a signal that
\* comes with the flag already set changes nothing of the supervisor.
C23_StopFlagMonotonic ==
    /\ [](pc = "Idle" => ~stop_event)
    /\ [][stop_event => stop_event']_vars
    /\ [][(~stop_event /\ stop_event') => SigHandled]_vars
    /\ [][(stop_event /\ SigHandled) =>
            UNCHANGED <<cfgVars, startVars, pc, exc, stop_event, returncode,
                        proc, termSent, killSent, spawnCount, taskVars,
                        elapsed, termVars, finDone, childVars, piper>>]_vars

\* A further signal has been delivered with the stop flag set, and its
\* handler is about to run.
C23_Witness == stop_event /\ sigPending /\ Suspended

\* C24: once main() is in its finally block it gets to "All done.": no
\* terminate step ends the run in another way, and each is over after its
\* grace period at the latest.
C24_ShutdownTerminates ==
    /\ [](pc # "Crashed")
    /\ InShutdown ~> pc = "Stopped"

\* C25: with both roles or no role enabled, a stop signal delivered or an
\* exit of the API child while main() is still starting leads to the finally
\* block once the wait loop is entered; nothing further has to happen.
C25_TriggerNotLost ==
    (/\ no_api = no_ui
     /\ Lifecycle(pc) = 1
     /\ sigPending \/ stop_event \/ os["api"] = "exited") ~> InShutdown

\* main() is about to enter the wait loop with the stop flag set during the
\* startup.
C25_Witness ==
    /\ no_api = no_ui
    /\ pc = "MakeTasks"
    /\ stop_event

\* C26: proc.kill() is called only by a terminate_process that has sent
\* SIGTERM and whose wait_for ran the whole grace period without seeing the
\* exit; a wait that sees the exit within the grace period never goes on to
\* the kill, and a first call that reports "exited" has killed nothing.
\* (A grace period of 0 is over at once: wait_for gives up without letting
\* the loop run, so no exit can be seen within it.)
C26_KillOnlyAfterGrace ==
    /\ [][(tpc # "kill" /\ tpc' = "kill") =>
            /\ tpc = "grace"
            /\ termSent[tproc]
            /\ graceElapsed >= grace
            /\ grace > 0 => returncode[tproc] = None]_vars
    /\ [][killSent' # killSent =>
            /\ tpc = "kill"
            /\ killSent' = [killSent EXCEPT ![tproc] = TRUE]]_vars
    /\ [][(tpc = "grace" /\ grace > 0 /\ returncode[tproc] # None) =>
            tpc' # "kill"]_vars
    /\ [](\A r \in Roles :
            (Len(ret[r]) >= 1 /\ ret[r][1].how = "exited") => ~killSent[r])

\* A child that was still running after a whole, positive grace period has
\* been killed.
C26_Witness ==
    /\ killSent["api"] /\ termSent["api"]
    /\ grace > 0 /\ graceElapsed >= grace
    /\ Len(ret["api"]) >= 1 /\ ret["api"][1].how = "killed"
    /\ ret["api"][1].os = "running"

\* C27: with both roles enabled the UI child is never created once the exit
\* of the API child has been reported to the supervisor (api_proc.returncode
\* is set): an API that exits before or during the health probe keeps the UI
\* from being started.
C27_NoUiAfterApiExit ==
    [][(~no_api /\ ~no_ui /\ spawnCount'["ui"] > spawnCount["ui"]) =>
          returncode["api"] = None]_vars

=============================================================================
